---- MODULE Spec2Model ----
(***************************************************************************)
(* ScreenSnap (screensnap.py): filename validation, format validation and  *)
(* platform-conditional capture, modelled as a state machine.              *)
(*                                                                         *)
(* Strings are sequences of one-character strings, so that basename,       *)
(* endswith, lower/upper and path joining are computed character by        *)
(* character, the way the Python code and its libraries compute them.      *)
(***************************************************************************)
EXTENDS Integers, Sequences, FiniteSets, TLC

VARIABLES snap, files, dirExists, handles, last

vars == <<snap, files, dirExists, handles, last>>

(***************************************************************************)
(* Bounds of the model.                                                    *)
(***************************************************************************)
\* longest stem (the part of a filename between padding and extension)
MaxStem == 2
\* calls are made until this many window captures have leaked their handles
MaxLeaks == 1
\* the caller keeps a file while the directory holds at most this many
MaxKept == 1

(***************************************************************************)
(* Characters and string helpers.                                          *)
(***************************************************************************)
UpperAlpha == <<"A","B","C","D","E","F","G","H","I","J","K","L","M",
                "N","O","P","Q","R","S","T","U","V","W","X","Y","Z">>
LowerAlpha == <<"a","b","c","d","e","f","g","h","i","j","k","l","m",
                "n","o","p","q","r","s","t","u","v","w","x","y","z">>

\* str.lower(), character-wise
lower(s) ==
  [i \in 1..Len(s) |->
     IF \E k \in 1..26 : UpperAlpha[k] = s[i]
       THEN LowerAlpha[CHOOSE k \in 1..26 : UpperAlpha[k] = s[i]]
       ELSE s[i]]

\* str.upper(), character-wise
upper(s) ==
  [i \in 1..Len(s) |->
     IF \E k \in 1..26 : LowerAlpha[k] = s[i]
       THEN UpperAlpha[CHOOSE k \in 1..26 : LowerAlpha[k] = s[i]]
       ELSE s[i]]

\* str.endswith(suffix)
endswith(s, suffix) ==
  /\ Len(suffix) <= Len(s)
  /\ SubSeq(s, Len(s) - Len(suffix) + 1, Len(s)) = suffix

\* `sub in s` for strings
contains(s, sub) ==
  \E i \in 0..(Len(s) - Len(sub)) : SubSeq(s, i + 1, i + Len(sub)) = sub

\* `char in s` for a single character
hasChar(s, c) == \E i \in 1..Len(s) : s[i] = c

\* str.rfind over a set of characters: the last index holding one of them, 0 if none
rfindAny(s, cs) ==
  LET hits == {i \in 1..Len(s) : s[i] \in cs}
  IN IF hits = {} THEN 0 ELSE CHOOSE i \in hits : \A j \in hits : j <= i

Dot == <<".">>

(***************************************************************************)
(* os.path.basename, as the running platform provides it.                  *)
(***************************************************************************)
\* path separators os.path and pathlib split on
Seps(system) == IF system = "Windows" THEN {"/", "\\"} ELSE {"/"}

\* ntpath.splitdrive: a drive letter followed by a colon is split off.
\* (A UNC prefix only moves the place where the tail starts; the tail
\* still holds no separator.)
dropDrive(system, p) ==
  IF system = "Windows" /\ Len(p) >= 2 /\ p[2] = ":"
    THEN SubSeq(p, 3, Len(p))
    ELSE p

basename(system, p) ==
  LET q == dropDrive(system, p)
      i == rfindAny(q, Seps(system))
  IN SubSeq(q, i + 1, Len(q))

(***************************************************************************)
(* pathlib: a path is its sequence of components.                          *)
(***************************************************************************)
\* the components of s between separators, in order
splitOn(s, cs) ==
  LET cuts == {0} \cup {i \in 1..Len(s) : s[i] \in cs} \cup {Len(s) + 1}
      kth(k) == CHOOSE i \in cuts : Cardinality({j \in cuts : j < i}) = k - 1
  IN [k \in 1..(Cardinality(cuts) - 1) |->
        SubSeq(s, kth(k) + 1, kth(k + 1) - 1)]

keptPart(c) == c # <<>> /\ c # Dot

\* Path(s): empty and "." components are dropped, ".." is kept
Path(system, s) ==
  [anchored |-> (s # <<>> /\ s[1] \in Seps(system))
                  \/ (dropDrive(system, s) # s),
   parts    |-> SelectSeq(splitOn(s, Seps(system)), keptPart)]

\* Path.__truediv__: an anchored right operand replaces the left one
joinPath(system, dir, s) ==
  LET rhs == Path(system, s)
  IN IF rhs.anchored THEN rhs
     ELSE [anchored |-> dir.anchored, parts |-> dir.parts \o rhs.parts]

parentOf(p) ==
  [anchored |-> p.anchored,
   parts    |-> IF p.parts = <<>> THEN <<>> ELSE SubSeq(p.parts, 1, Len(p.parts) - 1)]

nameOf(p) == IF p.parts = <<>> THEN <<>> ELSE p.parts[Len(p.parts)]

NoPath == [anchored |-> FALSE, parts |-> <<>>]

(***************************************************************************)
(* Program constants.                                                      *)
(***************************************************************************)
\* a limit that is one too large
MaxFilenameLen_offByOne == 255 + 1

\* "most filesystems have 255 char limit"
MaxFilenameLen == 255

\* valid_formats = ['png', 'jpg', 'jpeg']
valid_formats == << <<"p","n","g">>, <<"j","p","g">>, <<"j","p","e","g">> >>

\* the list without the backslash
invalid_chars_noBackslash == <<"<", ">", ":", "\"", "/", "|", "?", "*">>

\* the list without the pipe
invalid_chars_noPipe == <<"<", ">", ":", "\"", "/", "\\", "?", "*">>

\* invalid_chars = ['<', '>', ':', '"', '/', '\\', '|', '?', '*']
invalid_chars == <<"<", ">", ":", "\"", "/", "\\", "|", "?", "*">>

\* the format names Pillow's Image.save has an encoder registered for;
\* file extensions such as "jpg" are not format names
SaveHandlers == { <<"P","N","G">>, <<"J","P","E","G">>, <<"B","M","P">>, <<"G","I","F">> }

\* device context of the window, two derived device contexts, bitmap
HandlesPerCapture == 4

inList(x, list) == \E i \in 1..Len(list) : list[i] = x

(***************************************************************************)
(* Arguments.  A filename argument is absent (None) or a string.           *)
(***************************************************************************)
None == [given |-> FALSE, s |-> <<>>]
Str(s) == [given |-> TRUE, s |-> s]

\* Python truthiness of an Optional[str]
truthy(arg) == arg.given /\ arg.s # <<>>

(***************************************************************************)
(* ScreenSnap._validate_filename                                           *)
(***************************************************************************)
Accepted(name) == [ok |-> TRUE, name |-> name, rule |-> "none", char |-> ""]
Rejected(rule, c) == [ok |-> FALSE, name |-> <<>>, rule |-> rule, char |-> c]

\* the first character of invalid_chars, in list order, that the name holds
firstInvalid(name) ==
  LET bad == {i \in 1..Len(invalid_chars) : hasChar(name, invalid_chars[i])}
  IN IF bad = {} THEN ""
     ELSE invalid_chars[CHOOSE i \in bad : \A k \in bad : i <= k]

\* the checks on clean_filename = basename(filename), in the code's order
checked(filename, clean_filename) ==
  IF filename = <<>> THEN Accepted(filename)
  ELSE IF clean_filename # filename THEN Rejected("path_components", "")
  ELSE IF Len(clean_filename) > MaxFilenameLen THEN Rejected("too_long", "")
  ELSE IF firstInvalid(clean_filename) # ""
    THEN Rejected("invalid_char", firstInvalid(clean_filename))
  ELSE Accepted(clean_filename)

\* no validation at all: the filename is used as given
_validate_filename_unchecked(self, filename) == Accepted(filename)

_validate_filename(self, filename) ==
  checked(filename, basename(self.system, filename))

(***************************************************************************)
(* ScreenSnap._generate_filename                                           *)
(***************************************************************************)
Digits == <<"0","1","2","3","4","5","6","7","8","9">>
TwoDigits(n) == <<Digits[((n \div 10) % 10) + 1], Digits[(n % 10) + 1]>>

\* datetime.now().strftime("%Y%m%d_%H%M%S"); now is a day of the month and
\* the seconds since midnight, in a fixed month
strftime(now) ==
  <<"2","0","2","6","0","1">> \o TwoDigits(now.day) \o <<"_">>
    \o TwoDigits(now.sec \div 3600) \o TwoDigits((now.sec \div 60) % 60)
    \o TwoDigits(now.sec % 60)

ScreenshotPrefix == <<"s","c","r","e","e","n","s","h","o","t","_">>

Target(p) == [ok |-> TRUE, path |-> p, rule |-> "none", char |-> ""]
NoTarget(v) == [ok |-> FALSE, path |-> NoPath, rule |-> v.rule, char |-> v.char]

\* the extension is appended whether or not the name carries it
withExtension_always(filename, ext) == filename \o ext

\* if not filename.endswith(f'.{self.format}'): filename += f'.{self.format}'
withExtension(filename, ext) ==
  IF endswith(filename, ext) THEN filename ELSE filename \o ext

\* the branch for a custom name, v being the outcome of its validation
customName(self, v) ==
  IF ~v.ok THEN NoTarget(v)
  ELSE Target(joinPath(self.system, self.output_dir,
                       withExtension(v.name, Dot \o self.format)))

\* the branch for a generated name
timestampName(self, now) ==
  Target(joinPath(self.system, self.output_dir,
                  ScreenshotPrefix \o strftime(now) \o Dot \o self.format))

_generate_filename(self, custom_name, now) ==
  IF truthy(custom_name)
    THEN customName(self, _validate_filename(self, custom_name.s))
    ELSE timestampName(self, now)

(***************************************************************************)
(* Pillow's Image.save(filepath, format), as screensnap.py calls it.       *)
(***************************************************************************)
\* The encoder is looked up by format name before the file is opened.  The
\* file is then opened for writing; when encoding fails, Pillow (>= 10,
\* setup.py) removes the file if this call created it, and leaves a file
\* that already existed truncated.
save(fs, dirOk, filepath, format, disk) ==
  LET existed == \E f \in fs : f.path = filepath
      others == {f \in fs : f.path # filepath}
  IN IF format \notin SaveHandlers THEN [err |-> "KeyError", files |-> fs]
     ELSE IF ~dirOk THEN [err |-> "FileNotFoundError", files |-> fs]
     ELSE IF disk = "fail"
       THEN [err |-> "OSError",
             files |-> IF existed
                         THEN others \cup {[path |-> filepath, complete |-> FALSE]}
                         ELSE fs]
     ELSE [err |-> "none",
           files |-> others \cup {[path |-> filepath, complete |-> TRUE]}]

(***************************************************************************)
(* Outcome of a call: a returned path or a raised exception.               *)
(***************************************************************************)
Returned(p) == [kind |-> "path", path |-> p, rule |-> "none", char |-> "", cause |-> "none"]
ValueError(rule, c) ==
  [kind |-> "ValueError", path |-> NoPath, rule |-> rule, char |-> c, cause |-> "none"]
RuntimeError(cause) ==
  [kind |-> "RuntimeError", path |-> NoPath, rule |-> "none", char |-> "", cause |-> cause]
NoResult == [kind |-> "none", path |-> NoPath, rule |-> "none", char |-> "", cause |-> "none"]

\* what a call read from its environment; a field the call never reached
\* keeps its Unseen value
Unseen ==
  [day |-> 0, sec |-> 0, grab |-> "-", disk |-> "-", pywin32 |-> "-",
   windows |-> <<>>, enumerated |-> FALSE, fault |-> "-",
   mkdir |-> "-", pillow |-> "-"]

(***************************************************************************)
(* ScreenSnap.capture                                                      *)
(***************************************************************************)
\* what the call has read once the filename is generated: the clock, for a
\* generated name
sawClock(seen, filename, env) ==
  IF truthy(filename) THEN seen
  ELSE [seen EXCEPT !.day = env.now.day, !.sec = env.now.sec]

\* ... and once the image is saved: the disk, if the file was opened
sawDisk(seen, self, dirOk, env) ==
  IF upper(self.format) \in SaveHandlers /\ dirOk
    THEN [seen EXCEPT !.disk = env.disk] ELSE seen

Outcome(result, fs, seen, target) ==
  [result |-> result, files |-> fs, seen |-> seen, target |-> target]

\* screenshot.save(filepath, self.format.upper()); return filepath
\* sv is the outcome of save; an exception is wrapped (except Exception)
saved(filepath, sv, seen) ==
  Outcome(IF sv.err # "none" THEN RuntimeError(sv.err) ELSE Returned(filepath),
          sv.files, seen, filepath)

\* the body of capture once _generate_filename has run, g being its outcome
grabAndSave(self, fs, dirOk, env, g, seen) ==
  IF ~g.ok
    \* except ValueError: raise
    THEN Outcome(ValueError(g.rule, g.char), fs, seen, NoPath)
  ELSE IF env.grab = "fail"
    \* except Exception as e: raise RuntimeError(...)
    THEN Outcome(RuntimeError("grab"), fs, [seen EXCEPT !.grab = env.grab], g.path)
  ELSE saved(g.path,
             save(fs, dirOk, g.path, upper(self.format), env.disk),
             sawDisk([seen EXCEPT !.grab = env.grab], self, dirOk, env))

\* env: now (clock), grab (ImageGrab.grab() works or raises), disk (the
\* write works or raises); seen0: what the caller has read already
capture(self, fs, dirOk, filename, env, seen0) ==
  grabAndSave(self, fs, dirOk, env,
              _generate_filename(self, filename, env.now),
              sawClock(seen0, filename, env))

(***************************************************************************)
(* ScreenSnap._find_window                                                 *)
(***************************************************************************)
\* windows: the top-level windows in enumeration order, each with its
\* handle, title and visibility.  Returns the handle of the first visible
\* window whose lower-cased title contains the lower-cased substring, or 0
\* (None) when there is none.
_find_window(title_substring, windows) ==
  LET results == {i \in 1..Len(windows) :
                    /\ windows[i].visible
                    /\ contains(lower(windows[i].title), lower(title_substring))}
  IN IF results = {} THEN 0
     ELSE windows[CHOOSE i \in results : \A j \in results : i <= j].hwnd

(***************************************************************************)
(* ScreenSnap.capture_window                                               *)
(***************************************************************************)
\* an exception leaving the try block of capture_window: ImportError has
\* its own handler, every other exception is wrapped into RuntimeError
wrapped(r) ==
  IF r.kind \in {"ValueError", "RuntimeError"} THEN RuntimeError(r.kind) ELSE r

WindowOutcome(c, result, warned, leaked) ==
  [result |-> result, files |-> c.files, seen |-> c.seen, target |-> c.target,
   warned |-> warned, leaked |-> leaked]

\* The way capture_window takes:
\*   "unsupported"  the system is not Windows: full screen, outside the try
\*   "no_pywin32"   import win32gui raises ImportError: full screen, in the
\*                  except ImportError handler
\*   "not_found"    _find_window returns None: full screen, inside the try
\*   "window"       the window is captured
route(self, window_title, env) ==
  IF self.system # "Windows" THEN "unsupported"
  ELSE IF ~env.pywin32 THEN "no_pywin32"
  ELSE IF _find_window(window_title, env.windows) = 0 THEN "not_found"
  ELSE "window"

\* what the call has read from the window system on its way
sawWindows(r, env) ==
  IF r = "unsupported" THEN Unseen
  ELSE IF r = "no_pywin32" THEN [Unseen EXCEPT !.pywin32 = "no"]
  ELSE IF r = "not_found"
    THEN [Unseen EXCEPT !.pywin32 = "yes", !.windows = env.windows,
                        !.enumerated = TRUE]
  ELSE [Unseen EXCEPT !.pywin32 = "yes", !.windows = env.windows,
                      !.enumerated = TRUE, !.fault = env.fault]

\* print("Warning: ..."); return self.capture(filename) -- c is the outcome
\* of capture; inside the try block its exception is wrapped
fullScreen(r, c) ==
  WindowOutcome(c, IF r = "not_found" THEN wrapped(c.result) ELSE c.result, r, 0)

\* the outcome c of the save is the outcome of the call
returned(c) == WindowOutcome(c, c.result, "none", 0)

\* filepath = self._generate_filename(filename); screenshot.save(...) after
\* the cleanup: every exception is wrapped, ValueError included
saveWindow(self, fs, dirOk, env, g, seen) ==
  IF ~g.ok
    THEN WindowOutcome(Outcome(NoResult, fs, seen, NoPath),
                       RuntimeError("ValueError"), "none", 0)
    ELSE returned(saved(g.path,
                        save(fs, dirOk, g.path, upper(self.format), env.disk),
                        sawDisk(seen, self, dirOk, env)))

\* the window is found: handles are acquired, the window is printed and
\* converted, the handles are released, the image is saved
captureFound(self, fs, dirOk, filename, env, seen) ==
  IF env.fault = "convert"
    \* an exception between acquisition and cleanup skips the cleanup
    THEN WindowOutcome(Outcome(NoResult, fs, seen, NoPath),
                       RuntimeError("win32"), "none", HandlesPerCapture)
    ELSE saveWindow(self, fs, dirOk, env,
                    _generate_filename(self, filename, env.now),
                    sawClock(seen, filename, env))

dispatch(self, fs, dirOk, filename, env, r) ==
  IF r = "window"
    THEN captureFound(self, fs, dirOk, filename, env, sawWindows(r, env))
    ELSE fullScreen(r, capture(self, fs, dirOk, filename, env, sawWindows(r, env)))

\* the non-Windows fallback forgets the filename argument
capture_window_dropsFilename(self, fs, dirOk, window_title, filename, env) ==
  dispatch(self, fs, dirOk, None, env, route(self, window_title, env))

capture_window(self, fs, dirOk, window_title, filename, env) ==
  dispatch(self, fs, dirOk, filename, env, route(self, window_title, env))

(***************************************************************************)
(* ScreenSnapConfig._load_config and ScreenSnap.__init__                   *)
(***************************************************************************)
Str_out == <<"o","u","t">>

\* _default_config()["output_dir"]
DefaultOutputDir == Dot

\* The preferences file is: absent; unreadable (open raises IOError); not
\* JSON (JSONDecodeError); not text in the locale's encoding (read raises
\* UnicodeDecodeError, which neither except clause names); a JSON object
\* without "output_dir"; JSON that is not an object; or a JSON object with
\* "output_dir".  The result is the loaded value or the exception.
_load_config(cfg) ==
  CASE cfg \in {"absent", "unreadable", "badjson"} ->
         [err |-> "none", isDict |-> TRUE, hasDir |-> TRUE, dir |-> DefaultOutputDir]
    [] cfg = "undecodable" ->
         [err |-> "UnicodeDecodeError", isDict |-> FALSE, hasDir |-> FALSE, dir |-> <<>>]
    [] cfg = "nokey" ->
         [err |-> "none", isDict |-> TRUE, hasDir |-> FALSE, dir |-> <<>>]
    [] cfg = "notobject" ->
         [err |-> "none", isDict |-> FALSE, hasDir |-> FALSE, dir |-> <<>>]
    [] cfg = "ok" ->
         [err |-> "none", isDict |-> TRUE, hasDir |-> TRUE, dir |-> Str_out]

NoSnap == [alive |-> FALSE, format |-> <<>>, system |-> "-", output_dir |-> NoPath]

Failed(kind) ==
  [kind |-> kind, path |-> NoPath, rule |-> "none", char |-> "", cause |-> "none"]

\* env: cfg (the preferences file), system (platform.system()), mkdir
\* (creating the output directory works or raises), pillow (installed)
__init__(output_dir, format, env) ==
  LET config == _load_config(env.cfg)
      format_lower == lower(format)
      dir == IF truthy(output_dir) THEN output_dir.s ELSE config.dir
      self == [alive |-> TRUE, format |-> format_lower, system |-> env.system,
               output_dir |-> Path(env.system, dir)]
      seenMk == [Unseen EXCEPT !.mkdir = env.mkdir]
      seenPil == [seenMk EXCEPT !.pillow = IF env.pillow THEN "yes" ELSE "no"]
      fail(kind, seen) == [result |-> Failed(kind), snap |-> NoSnap, seen |-> seen,
                           made |-> FALSE]
  IN IF config.err # "none" THEN fail(config.err, Unseen)
     ELSE IF ~truthy(output_dir) /\ ~config.isDict THEN fail("TypeError", Unseen)
     ELSE IF ~truthy(output_dir) /\ ~config.hasDir THEN fail("KeyError", Unseen)
     ELSE IF ~inList(format_lower, valid_formats) THEN fail("ValueError", Unseen)
     ELSE IF env.mkdir = "fail" THEN fail("OSError", seenMk)
     ELSE IF ~env.pillow
       THEN [result |-> Failed("ImportError"), snap |-> NoSnap, seen |-> seenPil,
             made |-> TRUE]
     ELSE [result |-> Failed("instance"), snap |-> self, seen |-> seenPil,
           made |-> TRUE]

(***************************************************************************)
(* Inputs.                                                                 *)
(***************************************************************************)
\* the reserved characters other than the two separators
ReservedChars == {"<", ">", ":", "\"", "|", "?", "*"}

SeqsUpTo(S, n) == UNION {[1..k -> S] : k \in 0..n}

\* stems: every string of at most MaxStem characters over a letter, the
\* dot, both separators and one reserved character
Stems == UNION {SeqsUpTo({"a", ".", "/", "\\", r}, MaxStem) : r \in ReservedChars}

Suffixes == { <<>>, <<".","p","n","g">>, <<".","j","p","g">>, <<".","j","p","e","g">> }

\* MaxFilenameLen - 1 letters: one more character reaches the limit, two exceed it
Padding == [i \in 1..(MaxFilenameLen - 1) |-> "A"]

Filenames ==
  {st \o sx : st \in Stems, sx \in Suffixes} \cup {Padding \o st : st \in Stems}

FilenameArgs == {None} \cup {Str(s) : s \in Filenames}

FormatArgs ==
  { <<"p","n","g">>, <<"P","N","G">>, <<"j","p","g">>, <<"J","p","g">>,
    <<"j","p","e","g">>, <<"J","P","E","G">>, <<"g","i","f">>, <<"p","n">>, <<>> }

OutputDirArgs == {None, Str(Str_out)}

Configs == {"absent", "unreadable", "badjson", "undecodable", "nokey", "notobject", "ok"}

Systems == {"Windows", "Linux"}

InitEnvs == [cfg : Configs, system : Systems, mkdir : {"ok", "fail"}, pillow : BOOLEAN]

Times == {[day |-> 18, sec |-> 59], [day |-> 5, sec |-> 45296]}

Titles == { <<>>, <<"a","b">> }

WindowLists ==
  { <<[hwnd |-> 11, title |-> <<"a","b">>, visible |-> FALSE],
      [hwnd |-> 12, title |-> <<"x","A","B">>, visible |-> TRUE]>>,
    <<[hwnd |-> 21, title |-> <<"z">>, visible |-> TRUE]>> }

\* What a call reads from its environment.  A value is drawn only where
\* the code reads it: the clock when the name is generated, the screen and
\* the disk once the filename passed validation, the window system on
\* Windows only.
EnvsOf(auto, passes) ==
  [now  : IF auto THEN Times ELSE {[day |-> 18, sec |-> 59]},
   grab : IF passes THEN {"ok", "fail"} ELSE {"ok"},
   disk : IF passes THEN {"ok", "fail"} ELSE {"ok"}]

CaptureEnvs(self, filename) ==
  EnvsOf(~truthy(filename), _validate_filename(self, filename.s).ok)

WindowEnvs(self, filename) ==
  LET onWindows == self.system = "Windows"
  IN {[now |-> e.now, grab |-> e.grab, disk |-> e.disk,
       pywin32 |-> w.pywin32, windows |-> w.windows, fault |-> w.fault] :
        e \in CaptureEnvs(self, filename),
        w \in [pywin32 : IF onWindows THEN BOOLEAN ELSE {FALSE},
               windows : IF onWindows THEN WindowLists ELSE {<<>>},
               fault   : IF onWindows THEN {"none", "convert"} ELSE {"none"}]}

(***************************************************************************)
(* State.                                                                  *)
(*   snap       the capturer (self), once constructed                      *)
(*   files      the files in the output directory                          *)
(*   dirExists  whether the output directory exists                        *)
(*   handles    OS handles acquired and not released                       *)
(*   last       the call whose outcome the caller holds: its arguments,    *)
(*              what it read from the environment, and its outcome         *)
(***************************************************************************)
NoCall ==
  [op |-> "none", filename |-> None, title |-> <<>>, format |-> <<>>,
   output_dir |-> None, cfg |-> "-", system |-> "-",
   result |-> NoResult, warned |-> "none", seen |-> Unseen, target |-> NoPath]

Init ==
  /\ snap = NoSnap
  /\ files = {}
  /\ dirExists = FALSE
  /\ handles = 0
  /\ last = NoCall

\* no outcome is pending and the handle leak bound is not reached
Idle == last.op = "none" /\ handles < HandlesPerCapture * MaxLeaks

\* the call is over: its outcome is with the caller
Constructed(output_dir, format, env, c) ==
  /\ snap' = c.snap
  /\ dirExists' = (dirExists \/ c.made)
  /\ last' = [NoCall EXCEPT !.op = "__init__", !.format = format,
                            !.output_dir = output_dir, !.cfg = env.cfg,
                            !.system = env.system,
                            !.result = c.result, !.seen = c.seen]

Captured(filename, c) ==
  /\ files' = c.files
  /\ last' = [NoCall EXCEPT !.op = "capture", !.filename = filename,
                            !.result = c.result, !.seen = c.seen,
                            !.target = c.target]

WindowCaptured(window_title, filename, c) ==
  /\ files' = c.files
  /\ handles' = handles + c.leaked
  /\ last' = [NoCall EXCEPT !.op = "capture_window", !.filename = filename,
                            !.title = window_title,
                            !.result = c.result, !.warned = c.warned,
                            !.seen = c.seen, !.target = c.target]

\* snap = ScreenSnap(output_dir, format)
Construct ==
  /\ Idle
  /\ ~snap.alive
  /\ \E output_dir \in OutputDirArgs, format \in FormatArgs, env \in InitEnvs :
       Constructed(output_dir, format, env, __init__(output_dir, format, env))
  /\ UNCHANGED <<files, handles>>

\* snap.capture(filename)
Capture ==
  /\ Idle
  /\ snap.alive
  /\ \E filename \in FilenameArgs : \E env \in CaptureEnvs(snap, filename) :
       Captured(filename, capture(snap, files, dirExists, filename, env, Unseen))
  /\ UNCHANGED <<snap, dirExists, handles>>

\* snap.capture_window(window_title, filename)
CaptureWindow ==
  /\ Idle
  /\ snap.alive
  /\ \E window_title \in Titles, filename \in FilenameArgs :
       \E env \in WindowEnvs(snap, filename) :
         WindowCaptured(window_title, filename,
                        capture_window(snap, files, dirExists, window_title,
                                       filename, env))
  /\ UNCHANGED <<snap, dirExists>>

\* the caller takes the outcome and removes the file it was given, as the
\* test scripts do after every capture (os.remove(filepath))
Observe ==
  /\ last.op # "none"
  /\ files' = {}
  /\ last' = NoCall
  /\ UNCHANGED <<snap, dirExists, handles>>

Next ==
  \/ Construct
  \/ Capture
  \/ CaptureWindow
  \/ Observe

Spec == Init /\ [][Next]_vars

(***************************************************************************)
(* The output directory between calls.  The command line (main) leaves     *)
(* the file it reports where it was written, and test_rapid_captures       *)
(* leaves its files in place while it goes on capturing; the test scripts  *)
(* remove the emptied directory when they are done with it, while the      *)
(* capturer is still at hand.                                              *)
(***************************************************************************)
\* the filenames whose file the caller keeps
KeptArgs == {None, Str(<<"a">>)}

\* the caller takes the path it was given and leaves the file in place
Keep ==
  /\ last.op \in {"capture", "capture_window"}
  /\ last.result.kind = "path"
  /\ last.filename \in KeptArgs
  /\ Cardinality(files) <= MaxKept
  /\ last' = NoCall
  /\ UNCHANGED <<snap, files, dirExists, handles>>

\* os.rmdir(output_dir): the directory is empty
RemoveDir ==
  /\ Idle
  /\ snap.alive
  /\ dirExists
  /\ files = {}
  /\ dirExists' = FALSE
  /\ UNCHANGED <<snap, files, handles, last>>

NextDisk ==
  \/ Construct
  \/ Capture
  \/ CaptureWindow
  \/ Observe
  \/ Keep
  \/ RemoveDir

SpecDisk == Init /\ [][NextDisk]_vars

(***************************************************************************)
(* Vocabulary of the properties, stated on the characters of the filename  *)
(* and not through the operators above.                                    *)
(***************************************************************************)
IsCapture == last.op \in {"capture", "capture_window"}

Named == truthy(last.filename)

HasSeparator(n) == \E i \in 1..Len(n) : n[i] \in {"/", "\\"}

HasReserved(n) == \E i \in 1..Len(n) : n[i] \in ReservedChars

\* some component of n, split on both separators, is ".."
HasDotDotSegment(n) ==
  \E i \in 1..(Len(n) - 1) :
    /\ n[i] = "." /\ n[i + 1] = "."
    /\ (i = 1 \/ n[i - 1] \in {"/", "\\"})
    /\ (i + 1 = Len(n) \/ n[i + 2] \in {"/", "\\"})

\* the platform's basename would cut the name: it holds a separator of the
\* platform, or on Windows starts with a drive prefix
HasPathComponent(system, n) ==
  \/ \E i \in 1..Len(n) : n[i] = "/"
  \/ system = "Windows" /\ \E i \in 1..Len(n) : n[i] = "\\"
  \/ system = "Windows" /\ Len(n) >= 2 /\ n[2] = ":"

\* n ends with a dot followed by the format f
CarriesExtension(n, f) ==
  /\ Len(n) >= Len(f) + 1
  /\ n[Len(n) - Len(f)] = "."
  /\ \A i \in 1..Len(f) : n[Len(n) - Len(f) + i] = f[i]

StartsWith(n, prefix) ==
  /\ Len(n) >= Len(prefix)
  /\ \A i \in 1..Len(prefix) : n[i] = prefix[i]

\* the file at path p exists and was written completely
Written(p) == [path |-> p, complete |-> TRUE] \in files

(***************************************************************************)
(* C1: whenever capture or capture_window returns a path, the parent of    *)
(* the path is the capturer's output directory and its final component     *)
(* holds no path separator.                                                *)
(***************************************************************************)
C1_PathStaysInOutputDir ==
  (IsCapture /\ last.result.kind = "path") =>
     /\ parentOf(last.result.path) = snap.output_dir
     /\ nameOf(last.result.path) # <<>>
     /\ ~HasSeparator(nameOf(last.result.path))
     /\ Len(last.result.path.parts) = Len(snap.output_dir.parts) + 1

C1_Witness ==
  /\ last.op = "capture_window"
  /\ last.result.kind = "path"
  /\ Named
  /\ snap.system = "Windows"
  /\ snap.output_dir.parts # <<>>

(***************************************************************************)
(* C2: for every filename containing "/" or "\", capture raises            *)
(* ValueError, computes no path and writes no file.  The name ".." alone   *)
(* is not rejected as an invalid filename.                                 *)
(***************************************************************************)
C2_SeparatorRejected ==
  /\ (last.op = "capture" /\ Named /\ HasSeparator(last.filename.s)) =>
        /\ last.result.kind = "ValueError"
        /\ last.target = NoPath
        /\ files = {}
  /\ (last.op = "capture" /\ last.filename.s = <<".", ".">>) =>
        last.result.kind # "ValueError"

C2_Witness ==
  /\ last.op = "capture"
  /\ snap.system = "Linux"
  /\ \E i \in 1..Len(last.filename.s) : last.filename.s[i] = "\\"
  /\ ~\E i \in 1..Len(last.filename.s) : last.filename.s[i] = "/"
  /\ last.result.kind = "ValueError"

\* C2 as stated: every filename with a separator or a ".." segment, the
\* name ".." included, makes capture raise ValueError and write no file.
C2_Original ==
  (last.op = "capture" /\ Named
     /\ (HasSeparator(last.filename.s) \/ HasDotDotSegment(last.filename.s))) =>
       (last.result.kind = "ValueError" /\ files = {})

(***************************************************************************)
(* C3: for every filename containing one of < > : " | ? * capture raises   *)
(* ValueError on every platform and writes no file; the message names an   *)
(* invalid character of the filename when the filename has no path         *)
(* component and is at most 255 characters long.                           *)
(***************************************************************************)
C3_ReservedRejected ==
  (last.op = "capture" /\ Named /\ HasReserved(last.filename.s)) =>
     /\ last.result.kind = "ValueError"
     /\ files = {}
     /\ (~HasPathComponent(snap.system, last.filename.s) /\ Len(last.filename.s) <= 255) =>
           /\ last.result.rule = "invalid_char"
           /\ \E i \in 1..Len(last.filename.s) : last.filename.s[i] = last.result.char

C3_Witness ==
  /\ last.op = "capture"
  /\ Named /\ HasReserved(last.filename.s)
  /\ last.result.rule = "invalid_char"
  /\ last.result.char = "|"

\* C3 as stated: the ValueError always names an invalid character.
C3_Original ==
  (last.op = "capture" /\ Named /\ HasReserved(last.filename.s)) =>
     /\ last.result.kind = "ValueError"
     /\ last.result.rule = "invalid_char"
     /\ files = {}

(***************************************************************************)
(* C4: for every filename longer than 255 characters capture raises        *)
(* ValueError, with the "too long" message when the filename has no path   *)
(* component; every filename of at most 255 characters with no separator   *)
(* and no reserved character passes validation.                            *)
(***************************************************************************)
C4_LengthLimit ==
  /\ (last.op = "capture" /\ Named /\ Len(last.filename.s) > 255) =>
        /\ last.result.kind = "ValueError"
        /\ ~HasPathComponent(snap.system, last.filename.s) =>
              last.result.rule = "too_long"
  /\ (last.op = "capture" /\ Named /\ Len(last.filename.s) <= 255
        /\ ~HasSeparator(last.filename.s) /\ ~HasReserved(last.filename.s)) =>
        /\ last.result.kind # "ValueError"
        /\ last.target # NoPath

C4_Witness ==
  /\ last.op = "capture"
  /\ Len(last.filename.s) = 256
  /\ last.result.rule = "too_long"

\* C4 as stated: every filename longer than 255 characters gets the
\* "too long" ValueError.
C4_Original ==
  /\ (last.op = "capture" /\ Named /\ Len(last.filename.s) > 255) =>
        (last.result.kind = "ValueError" /\ last.result.rule = "too_long")
  /\ (last.op = "capture" /\ Named /\ Len(last.filename.s) <= 255
        /\ ~HasSeparator(last.filename.s) /\ ~HasReserved(last.filename.s)) =>
        last.result.kind # "ValueError"

(***************************************************************************)
(* C5: constructing a capturer raises ValueError exactly when the format,  *)
(* lower-cased, is not one of png, jpg, jpeg; otherwise the capturer's     *)
(* format is the lower-cased string.                                       *)
(***************************************************************************)
C5_Original ==
  (last.op = "__init__") =>
     /\ (last.result.kind = "ValueError") <=> ~inList(lower(last.format), valid_formats)
     /\ (last.result.kind = "instance") => snap.format = lower(last.format)

C7_Original ==
  (last.op = "capture" /\ ~Named /\ dirExists
     /\ last.seen.grab = "ok" /\ last.seen.disk # "fail") =>
       /\ last.result.kind = "path"
       /\ parentOf(last.result.path) = snap.output_dir
       /\ StartsWith(nameOf(last.result.path), ScreenshotPrefix)
       /\ CarriesExtension(nameOf(last.result.path), snap.format)
       /\ Written(last.result.path)

(***************************************************************************)
(* C8: a capturer configured with jpg succeeds in capture exactly when a   *)
(* capturer configured with jpeg succeeds on the same filename, screen     *)
(* and disk; its file keeps the extension ".jpg".                          *)
(***************************************************************************)
\* the environment the last call ran in, as far as the call read it; what
\* it did not read is taken as working
EnvOfLast ==
  [now  |-> [day |-> IF last.seen.day = 0 THEN 18 ELSE last.seen.day,
             sec |-> last.seen.sec],
   grab |-> IF last.seen.grab = "-" THEN "ok" ELSE last.seen.grab,
   disk |-> IF last.seen.disk = "-" THEN "ok" ELSE last.seen.disk]

C8_Original ==
  (last.op = "capture" /\ snap.format = <<"j", "p", "g">>) =>
     LET jpeg == capture([snap EXCEPT !.format = <<"j", "p", "e", "g">>],
                         {}, dirExists, last.filename, EnvOfLast, Unseen)
     IN /\ (last.result.kind = "path") <=> (jpeg.result.kind = "path")
        /\ (last.result.kind = "path") =>
              CarriesExtension(nameOf(last.result.path), <<"j", "p", "g">>)

NoVisibleMatch(title, windows) ==
  \A i \in 1..Len(windows) :
    windows[i].visible =>
      ~\E k \in 0..(Len(windows[i].title) - Len(title)) :
          \A j \in 1..Len(title) :
             lower(<<windows[i].title[k + j]>>) = lower(<<title[j]>>)

ValidName(n) ==
  n # <<>> /\ Len(n) <= 255 /\ ~HasSeparator(n) /\ ~HasReserved(n)

C10_Original ==
  (/\ last.op = "capture_window"
   /\ snap.system = "Windows"
   /\ \/ last.seen.pywin32 = "no"
      \/ last.seen.enumerated /\ NoVisibleMatch(last.title, last.seen.windows)
   /\ Named /\ ValidName(last.filename.s)
   /\ dirExists /\ last.seen.grab = "ok" /\ last.seen.disk # "fail") =>
     /\ last.result.kind = "path"
     /\ last.warned \in {"not_found", "no_pywin32"}
     /\ Written(last.result.path)

(***************************************************************************)
(* C11: whenever the supplied filename is invalid (longer than 255         *)
(* characters, or holding a path separator or a reserved character),       *)
(* capture and capture_window fail with ValueError carrying the violated   *)
(* rule, on every platform and on every branch of capture_window.          *)
(***************************************************************************)
C11_Original ==
  (IsCapture /\ Named /\ ~ValidName(last.filename.s)) =>
     /\ last.result.kind = "ValueError"
     /\ last.result.rule # "none"

(***************************************************************************)
(* C13: constructing a capturer never fails because of the preferences     *)
(* file: whatever the file holds, the constructor returns an instance or   *)
(* fails for a reason of its own arguments or environment (invalid format, *)
(* directory creation, missing Pillow).                                    *)
(***************************************************************************)
C13_Original ==
  (last.op = "__init__") =>
     last.result.kind \in {"instance", "ValueError", "OSError", "ImportError"}

(***************************************************************************)
(* C14: after capture_window returns or raises, every OS handle it         *)
(* acquired during the call has been released: no handle is ever left      *)
(* unreleased.                                                             *)
(***************************************************************************)
C14_Original == handles = 0

(***************************************************************************)
(* C16: the final component of every path returned by capture or           *)
(* capture_window is at most 255 characters long, the appended extension   *)
(* included.                                                               *)
(***************************************************************************)
C16_Original ==
  (IsCapture /\ last.result.kind = "path") =>
     Len(nameOf(last.result.path)) <= 255

(***************************************************************************)
(* C12: there is no partial success: after a call to capture or            *)
(* capture_window, either the call returned a path and a completely        *)
(* written file is at that path, or the call failed and no truncated file  *)
(* is at the target path.                                                  *)
(***************************************************************************)
C12_Original ==
  IsCapture =>
     IF last.result.kind = "path"
       THEN Written(last.result.path)
       ELSE \A f \in files : f.path = last.target => f.complete

(***************************************************************************)
(* C15: capture creates the output directory when it is absent at call     *)
(* time: a capture with a valid filename, the screen and the disk working  *)
(* and a format other than jpg, succeeds and its file is written inside    *)
(* the (re)created directory.                                              *)
(***************************************************************************)
C15_Original ==
  (/\ last.op = "capture"
   /\ Named /\ ValidName(last.filename.s)
   /\ snap.format # <<"j", "p", "g">>
   /\ last.seen.grab = "ok" /\ last.seen.disk # "fail") =>
     /\ dirExists
     /\ last.result.kind = "path"
     /\ Written(last.result.path)

====
